---- MODULE Spec2Model ----
(***************************************************************************)
(* Model of the scheduled data pipeline of it-jobs-meta:                   *)
(*   - DataPipeline.schedule / DataPipeline.run                            *)
(*       (src/it_jobs_meta/data_pipeline/data_pipeline.py)                 *)
(*   - make_key_for_data      (src/data_processing/data_ingestion.py)      *)
(*   - Geolocator.__call__    (src/it_jobs_meta/data_pipeline/geolocator.py*)
(*       with throttle from src/it_jobs_meta/common/utils.py)              *)
(* Time is a discrete wall clock counted in ticks.  A cron expression is   *)
(* abstracted to "every step-th tick", together with a flag telling        *)
(* whether croniter can parse it.                                          *)
(***************************************************************************)
EXTENDS Integers, Sequences, FiniteSets, TLC

\* ------------------------------------------------------------ bounds
\* Last tick of the wall clock that is explored.
MaxTime == 5
\* Largest cron step (distance between two nominal triggers, in ticks).
MaxStep == 2
\* Resolution of the wall clock: ticks in one second.
TicksPerSecond == 2
\* Number of Geolocator instances.
NumGeolocators == 2

\* ------------------------------------------------------------ state
VARIABLES
    clock,            \* wall clock (dt.datetime.now()), in ticks
    cron_expression,  \* argument of schedule()
    hasDataLake,      \* self._data_lake_factory is not None
    pc,               \* position of the process inside schedule()/run()
    exc,              \* exception that left schedule(), "none" if none
    cronCur,          \* croniter's current time (the last value it returned)
    cronStart,        \* time croniter was constructed with
    now,              \* local `now` of schedule()
    trigger,          \* cron.get_next(dt.datetime) of this iteration
    delta,            \* timedelta_till_next_trigger
    wakeAt,           \* time at which the pending sleep() elapses
    data,             \* metadata of the PostingsData of the current run
    lake,             \* data lake: entries [key, run], run = the run that stored it
    loads,            \* warehouse: loads performed by the ETL loader
    logged,           \* number of logging.exception records written
    runNo,            \* number of run() calls made by schedule()
    active,           \* run() calls that have not completed yet
    runStartClock,    \* clock when the last run() was called
    lastCompletion,   \* clock when the last run() completed (-1: none yet)
    stagesOk,         \* stages of the current run that have succeeded
    failed,           \* [run, stage] of every stage failure
    archived,         \* batches handed to the data lake: [run, ts, src]
    sleeps,           \* number of sleep() calls that started sleeping
    interruptedAt,    \* pc at which KeyboardInterrupt arrived, "none" if none
    geoPc,            \* position inside Geolocator.__call__
    geoSelf,          \* Geolocator instance of the call in progress
    geoCity,          \* city_name of the call in progress
    geoTries,         \* retry's remaining tries (_tries)
    cache,            \* functools.cache of __call__: entries [self, city, result]
    geoRet,           \* outcome of the last __call__: [kind, value]
    netCalls,         \* geocode() network calls made by the last __call__
    geoDelay,         \* time slept inside the last __call__, in units of 0.1 s
    geoHist,          \* [self, city, result]: what each name resolved to first
    geoKnown,         \* the last __call__ was for a name resolved before it
    geoUnres,         \* the last __call__ was for a name left unresolved before
    geoSince,         \* enforced sleep since the last geocode() call (-1: none yet)
    lastGap,          \* enforced sleep between the last two geocode() calls
    oldCache,         \* functools.cache of data_processing's Geolocator.__call__
    oldRet,           \* value returned by its last __call__
    raw,              \* the raw relation: one record per posting of the batch
    etlPc,            \* position of the ETL run
    relation,         \* the relation the transformation steps produce
    postingsView,     \* outcome of Schemas.postings.validate(relation)
    salariesView,     \* outcome of Schemas.salaries.validate(relation)
    etlLoaded,        \* rows handed to the loader
    etlExc,           \* error that ended the ETL run, if any
    selIn,            \* relation select_required was applied to
    selOut,           \* outcome of select_required(selIn)
    selAgain,         \* outcome of select_required on its own output
    trRaw,            \* raw relation an extract_* step is applied to
    trPc,             \* position inside extract_locations
    trRemote,         \* column `remote` made by extract_remote
    trRow,            \* posting extract_locations is at
    trPlace,          \* place of that posting it is at
    trResolved,       \* what the Geolocator returned, per posting and place
    trCity,           \* column `city` made by extract_locations
    whMetadata,       \* warehouse collection `metadata`: documents, in order
    whPostings,       \* warehouse collection `postings`: documents, in order
    whLoaded,         \* [batch_id, rel, run]: the relations the loader inserted
    whRuns,           \* number of loader calls so far
    whFetch,          \* argument and outcome of the last fetch_data
    srcPc,            \* position inside NoFluffJobsPostingsDataSource.get
    srcStartedAt,     \* clock when requests.get was called
    srcReceivedAt,    \* clock when the response arrived
    srcJson,          \* r.json() of the response
    srcReturnedAt,    \* clock when get returned
    srcResult         \* the PostingsData get returned

schedVars == <<clock, cron_expression, hasDataLake, pc, exc, cronCur, cronStart,
               now, trigger, delta, wakeAt, data, lake, loads, logged, runNo,
               active, runStartClock, lastCompletion, stagesOk, failed,
               archived, sleeps, interruptedAt>>
geoVars == <<geoPc, geoSelf, geoCity, geoTries, cache, geoRet, netCalls,
             geoDelay, geoHist, geoKnown, geoUnres, geoSince, lastGap>>
oldVars == <<oldCache, oldRet>>
etlVars == <<raw, etlPc, relation, postingsView, salariesView, etlLoaded, etlExc>>
trVars == <<selIn, selOut, selAgain, trRaw, trPc, trRemote, trRow, trPlace,
            trResolved, trCity>>
whVars == <<whMetadata, whPostings, whLoaded, whRuns, whFetch>>
srcVars == <<srcPc, srcStartedAt, srcReceivedAt, srcJson, srcReturnedAt, srcResult>>
vars == <<schedVars, geoVars, oldVars, etlVars, trVars, whVars, srcVars>>

\* ------------------------------------------------------------ cron
\* Cron expressions handed to schedule(): "every step ticks", well formed
\* or not.
CronExpressions == [wellFormed : BOOLEAN, step : 1..MaxStep]

\* croniter.croniter(expr, start) raises CroniterBadCronError for an
\* expression it cannot parse.
AcceptsAnyCron(e) == TRUE
IsValidCron(e) == e.wellFormed

\* cron.get_next(): the first matching time strictly after the iterator's
\* current time.
CronGetNext(cur, e) == cur + (e.step - (cur % e.step))

\* time.sleep(secs) returns once at least secs have elapsed.
SleepReturnsEarly(clk, wake) == TRUE
SleepElapsed(clk, wake) == clk >= wake


\* ------------------------------------------------------------ Geolocator
\* @retry(TimeoutError, tries=3, delay=10) and @throttle(0.1); delays are
\* counted in units of 0.1 s.
RetryTries == 3
RetryDelay == 100
ThrottleDelay == 1

Geolocators == 1..NumGeolocators
CityNames == {"Warsaw", "Gdynia"}

\* Python's None as the result of a lookup.
None == [kind |-> "None"]

\* What Nominatim.geocode may answer: no match, or a location with its
\* address (comma separated parts), latitude and longitude.
NoLocation == [found |-> FALSE]
Locations ==
    { [found |-> TRUE, address |-> <<"Warszawa", "Polska">>,
       latitude |-> 52, longitude |-> 21],
      [found |-> TRUE, address |-> <<"Gdynia", "Polska">>,
       latitude |-> 54, longitude |-> 18] }
GeocodeAnswers == {NoLocation} \cup Locations

\* get_universal_city_name_lat_lon on the answer of geocode(): None, or
\* (first part of the address, latitude, longitude).
UniversalCityNameLatLon(location) ==
    IF ~location.found
      THEN None
      ELSE [kind |-> "tuple", name |-> location.address[1],
            lat |-> location.latitude, lon |-> location.longitude]

\* retry's loop: after a caught TimeoutError `_tries -= 1`, and
\* `if not _tries: raise`.
RetryNeverExhausted(tries) == FALSE
RetryExhausted(tries) == tries = 0

\* functools.cache: the key of an entry is (self, city_name); Geolocator
\* defines neither __eq__ nor __hash__, so self counts by identity.
CacheKeyWithoutSelf(g) == 0
CacheKeySelf(g) == g
NeverCached(g, city) == FALSE
CacheHit(g, city) ==
    \E e \in cache : e.self = CacheKeySelf(g) /\ e.city = city
CacheGet(g, city) ==
    (CHOOSE e \in cache : e.self = CacheKeySelf(g) /\ e.city = city).result

\* ------------------------------------------------------------ archival key
\* Source names a PostingsDataSource may put into the metadata; the first
\* stands for NoFluffJobsPostingsDataSource.SOURCE_NAME.
SourceNames == {<<"n", "f", "j">>, <<"0", "_", "n", "f", "j">>}

\* No batch ingested yet.
NoData == [ts |-> 0, src |-> <<>>]

Digit(d) == <<"0", "1", "2", "3", "4", "5", "6", "7", "8", "9">>[d + 1]

\* str() of a non-negative integer.
RECURSIVE DecStr(_)
DecStr(n) == IF n < 10 THEN <<Digit(n)>> ELSE DecStr(n \div 10) \o <<Digit(n % 10)>>

\* obtained_datetime.timestamp() formatted by the f-string: a float, whole
\* seconds, a point and the fraction of the second.
TimestampStr(ts) ==
    DecStr(ts \div TicksPerSecond) \o <<".">>
        \o <<Digit(((ts % TicksPerSecond) * 10) \div TicksPerSecond)>>

\* The key with the timestamp cut to whole seconds (int(timestamp)).
make_key_whole_seconds(dataset) ==
    DecStr(dataset.ts \div TicksPerSecond) \o <<"_">> \o dataset.src
\* f'{timestamp}_{source_name}'
make_key_for_data(dataset) ==
    TimestampStr(dataset.ts) \o <<"_">> \o dataset.src

\* ------------------------------------------------------------ run() stages
RunPcs == {"ingest", "archive", "extract", "transform", "validate", "load"}
EtlPcs == {"extract", "transform", "validate", "load"}
TryPcs == {"now", "next", "sleep", "sleeping"} \cup RunPcs
DonePcs == {"returned", "raised"}

\* run(): ingestion, then archival when a data lake is configured, then the
\* ETL pipeline.
RunStageWithoutArchive(stage) == "extract"
RunStageAfter(stage) ==
    CASE stage = "ingest"  -> IF hasDataLake THEN "archive" ELSE "extract"
      [] stage = "archive" -> "extract"

\* EtlPipeline.run: extraction, transformation, validation, loading; after
\* loading run() returns to schedule()'s loop.
EtlStageAfter(stage) ==
    CASE stage = "extract"   -> "transform"
      [] stage = "transform" -> "validate"
      [] stage = "validate"  -> "load"
      [] stage = "load"      -> "now"

StageAfter(stage) ==
    IF stage \in EtlPcs THEN EtlStageAfter(stage) ELSE RunStageAfter(stage)

\* run()'s handler logs the exception and re-raises it; schedule() catches
\* KeyboardInterrupt only, so the exception leaves schedule().
ContinueAfterFailure(stage) == StageAfter(stage)
AfterStageFailure(stage) == "raised"

\* ------------------------------------------------------------ schedule()
\* State right after DataPipeline(...) was constructed and schedule(expr)
\* was called.
Init ==
    /\ clock = 0
    /\ cron_expression \in CronExpressions
    /\ hasDataLake \in BOOLEAN
    /\ pc = "start"
    /\ exc = "none"
    /\ cronCur = 0 /\ cronStart = 0 /\ now = 0 /\ trigger = 0 /\ delta = 0
    /\ wakeAt = 0
    /\ data = NoData
    /\ lake = {}
    /\ loads = {}
    /\ logged = 0
    /\ runNo = 0 /\ active = 0 /\ runStartClock = 0 /\ lastCompletion = -1
    /\ stagesOk = {}
    /\ failed = {}
    /\ archived = {}
    /\ sleeps = 0
    /\ interruptedAt = "none"
    /\ geoPc = "idle" /\ geoSelf = 0 /\ geoCity = "none" /\ geoTries = 0
    /\ cache = {} /\ geoRet = [kind |-> "none", value |-> None]
    /\ netCalls = 0 /\ geoDelay = 0
    /\ geoHist = {} /\ geoKnown = FALSE /\ geoUnres = FALSE
    /\ geoSince = -1 /\ lastGap = -1
    /\ oldCache = {} /\ oldRet = [kind |-> "none"]
    /\ raw = <<>> /\ etlPc = "idle" /\ relation = <<>>
    /\ postingsView = [status |-> "none", rows |-> <<>>]
    /\ salariesView = [status |-> "none", rows |-> <<>>]
    /\ etlLoaded = <<>> /\ etlExc = "none"
    /\ selIn = [cols |-> <<>>, n |-> 0]
    /\ selOut = [status |-> "none"] /\ selAgain = [status |-> "none"]
    /\ trRaw = <<>> /\ trPc = "idle" /\ trRemote = <<>>
    /\ trRow = 0 /\ trPlace = 0 /\ trResolved = <<>> /\ trCity = <<>>
    /\ whMetadata = <<>> /\ whPostings = <<>> /\ whLoaded = {} /\ whRuns = 0
    /\ whFetch = [status |-> "none"]
    /\ srcPc = "idle" /\ srcStartedAt = 0 /\ srcReceivedAt = 0
    /\ srcJson = "none" /\ srcReturnedAt = 0
    /\ srcResult = [status |-> "none"]

\* The wall clock advances while the process is alive.
Tick ==
    /\ pc \notin DonePcs
    /\ clock < MaxTime
    /\ clock' = clock + 1
    /\ UNCHANGED <<cron_expression, hasDataLake, pc, exc, cronCur, cronStart,
                   now, trigger, delta, wakeAt, data, lake, loads, logged,
                   runNo, active, runStartClock, lastCompletion, stagesOk,
                   failed, archived, sleeps, interruptedAt, geoVars, oldVars, etlVars, trVars, whVars, srcVars>>

\* cron = croniter.croniter(cron_expression, dt.datetime.now()); it is
\* outside the try block, so its error leaves schedule().
CroniterInit ==
    /\ pc = "start"
    /\ IF IsValidCron(cron_expression)
         THEN /\ cronCur' = clock /\ cronStart' = clock
              /\ pc' = "now" /\ exc' = exc
         ELSE /\ pc' = "raised" /\ exc' = "CroniterBadCronError"
              /\ UNCHANGED <<cronCur, cronStart>>
    /\ UNCHANGED <<clock, cron_expression, hasDataLake, now, trigger, delta,
                   wakeAt, data, lake, loads, logged, runNo, active,
                   runStartClock, lastCompletion, stagesOk, failed, archived,
                   sleeps, interruptedAt, geoVars, oldVars, etlVars, trVars, whVars, srcVars>>

\* now = dt.datetime.now()
ReadNow ==
    /\ pc = "now"
    /\ now' = clock
    /\ pc' = "next"
    /\ UNCHANGED <<clock, cron_expression, hasDataLake, exc, cronCur, cronStart,
                   trigger, delta, wakeAt, data, lake, loads, logged, runNo,
                   active, runStartClock, lastCompletion, stagesOk, failed,
                   archived, sleeps, interruptedAt, geoVars, oldVars, etlVars, trVars, whVars, srcVars>>

\* timedelta_till_next_trigger = cron.get_next(dt.datetime) - now
\* The iterator advances from the value it returned last, not from now.
GetNext ==
    /\ pc = "next"
    /\ trigger' = CronGetNext(cronCur, cron_expression)
    /\ cronCur' = trigger'
    /\ delta' = trigger' - now
    /\ pc' = "sleep"
    /\ UNCHANGED <<clock, cron_expression, hasDataLake, exc, cronStart, now,
                   wakeAt, data, lake, loads, logged, runNo, active,
                   runStartClock, lastCompletion, stagesOk, failed, archived,
                   sleeps, interruptedAt, geoVars, oldVars, etlVars, trVars, whVars, srcVars>>

\* sleep(timedelta_till_next_trigger.total_seconds()): time.sleep raises
\* ValueError for a negative length, which `except KeyboardInterrupt` does
\* not catch.
SleepCall ==
    /\ pc = "sleep"
    /\ IF delta < 0
         THEN /\ pc' = "raised" /\ exc' = "ValueError"
              /\ UNCHANGED <<wakeAt, sleeps>>
         ELSE /\ pc' = "sleeping" /\ exc' = exc
              /\ wakeAt' = clock + delta
              /\ sleeps' = sleeps + 1
    /\ UNCHANGED <<clock, cron_expression, hasDataLake, cronCur, cronStart, now,
                   trigger, delta, data, lake, loads, logged, runNo, active,
                   runStartClock, lastCompletion, stagesOk, failed, archived,
                   interruptedAt, geoVars, oldVars, etlVars, trVars, whVars, srcVars>>

\* A run started without waiting for it to complete (what a scheduler that
\* hands run() to a worker would do).
CallRunDetached ==
    /\ pc = "sleeping"
    /\ SleepElapsed(clock, wakeAt)
    /\ pc' = "now"
    /\ runNo' = runNo + 1
    /\ active' = active + 1
    /\ runStartClock' = clock
    /\ stagesOk' = {}
    /\ UNCHANGED <<clock, cron_expression, hasDataLake, exc, cronCur, cronStart,
                   now, trigger, delta, wakeAt, data, lake, loads, logged,
                   lastCompletion, failed, archived, sleeps, interruptedAt,
                   geoVars, oldVars, etlVars, trVars, whVars, srcVars>>

\* sleep() returns and self.run() is called; schedule() continues only when
\* run() has returned.
CallRun ==
    /\ pc = "sleeping"
    /\ SleepElapsed(clock, wakeAt)
    /\ pc' = "ingest"
    /\ runNo' = runNo + 1
    /\ active' = active + 1
    /\ runStartClock' = clock
    /\ stagesOk' = {}
    /\ UNCHANGED <<clock, cron_expression, hasDataLake, exc, cronCur, cronStart,
                   now, trigger, delta, wakeAt, data, lake, loads, logged,
                   lastCompletion, failed, archived, sleeps, interruptedAt,
                   geoVars, oldVars, etlVars, trVars, whVars, srcVars>>

\* KeyboardInterrupt handled as if run()'s `except Exception` caught it too:
\* logged as a failure of the run, then passed on to schedule().
InterruptLoggedByRun ==
    /\ pc \in TryPcs
    /\ interruptedAt' = pc
    /\ pc' = "returned"
    /\ active' = IF pc \in RunPcs THEN active - 1 ELSE active
    /\ logged' = IF pc \in RunPcs THEN logged + 1 ELSE logged
    /\ failed' = IF pc \in RunPcs
                   THEN failed \cup {[run |-> runNo, stage |-> pc]}
                   ELSE failed
    /\ UNCHANGED <<clock, cron_expression, hasDataLake, exc, cronCur, cronStart,
                   now, trigger, delta, wakeAt, data, lake, loads,
                   runNo, runStartClock, lastCompletion, stagesOk,
                   archived, sleeps, geoVars, oldVars, etlVars, trVars, whVars, srcVars>>

\* KeyboardInterrupt inside the try block: it is no Exception, so run()'s
\* handler lets it pass, and schedule() catches it, logs and returns.
Interrupt ==
    /\ pc \in TryPcs
    /\ interruptedAt' = pc
    /\ pc' = "returned"
    /\ active' = IF pc \in RunPcs THEN active - 1 ELSE active
    /\ UNCHANGED <<clock, cron_expression, hasDataLake, exc, cronCur, cronStart,
                   now, trigger, delta, wakeAt, data, lake, loads, logged,
                   runNo, runStartClock, lastCompletion, stagesOk, failed,
                   archived, sleeps, geoVars, oldVars, etlVars, trVars, whVars, srcVars>>

\* ------------------------------------------------------------ run()
\* A stage of run() raised an Exception: the handler of run() logs it
\* (logging.exception) and re-raises.
RunRaises(stage) ==
    /\ failed' = failed \cup {[run |-> runNo, stage |-> stage]}
    /\ logged' = logged + 1
    /\ pc' = AfterStageFailure(stage)
    /\ exc' = IF pc' = "raised" THEN "Exception" ELSE exc
    /\ IF pc' \in RunPcs
         THEN UNCHANGED <<active, lastCompletion>>
         ELSE active' = active - 1 /\ lastCompletion' = clock

\* data = self._data_source.get(): the metadata carries the source name and
\* the clock read after the response arrived.
IngestOk(src) ==
    /\ pc = "ingest"
    /\ data' = [ts |-> clock, src |-> src]
    /\ stagesOk' = stagesOk \cup {"ingest"}
    /\ pc' = StageAfter("ingest")
    /\ UNCHANGED <<clock, cron_expression, hasDataLake, exc, cronCur, cronStart,
                   now, trigger, delta, wakeAt, lake, loads, logged, runNo,
                   active, runStartClock, lastCompletion, failed, archived,
                   sleeps, interruptedAt, geoVars, oldVars, etlVars, trVars, whVars, srcVars>>

IngestFails ==
    /\ pc = "ingest"
    /\ RunRaises("ingest")
    /\ UNCHANGED <<clock, cron_expression, hasDataLake, cronCur, cronStart, now,
                   trigger, delta, wakeAt, data, lake, loads, runNo,
                   runStartClock, stagesOk, archived, sleeps, interruptedAt,
                   geoVars, oldVars, etlVars, trVars, whVars, srcVars>>

\* data_lake.set_data(data_key, json): the entry under the key is replaced.
ArchiveOk ==
    /\ pc = "archive"
    /\ LET key == make_key_for_data(data)
       IN lake' = {e \in lake : e.key # key} \cup {[key |-> key, run |-> runNo]}
    /\ archived' = archived \cup {[run |-> runNo, ts |-> data.ts, src |-> data.src]}
    /\ stagesOk' = stagesOk \cup {"archive"}
    /\ pc' = StageAfter("archive")
    /\ UNCHANGED <<clock, cron_expression, hasDataLake, exc, cronCur, cronStart,
                   now, trigger, delta, wakeAt, data, loads, logged, runNo,
                   active, runStartClock, lastCompletion, failed, sleeps,
                   interruptedAt, geoVars, oldVars, etlVars, trVars, whVars, srcVars>>

\* self._data_lake_factory.make() or set_data() raised.
ArchiveFails ==
    /\ pc = "archive"
    /\ RunRaises("archive")
    /\ UNCHANGED <<clock, cron_expression, hasDataLake, cronCur, cronStart, now,
                   trigger, delta, wakeAt, data, lake, loads, runNo,
                   runStartClock, stagesOk, archived, sleeps, interruptedAt,
                   geoVars, oldVars, etlVars, trVars, whVars, srcVars>>

\* Extraction, transformation or validation of the batch succeeded.
EtlStageOk ==
    /\ pc \in {"extract", "transform", "validate"}
    /\ stagesOk' = stagesOk \cup {pc}
    /\ pc' = StageAfter(pc)
    /\ UNCHANGED <<clock, cron_expression, hasDataLake, exc, cronCur, cronStart,
                   now, trigger, delta, wakeAt, data, lake, loads, logged,
                   runNo, active, runStartClock, lastCompletion, failed,
                   archived, sleeps, interruptedAt, geoVars, oldVars, etlVars, trVars, whVars, srcVars>>

\* The loader stored the batch; etl_pipeline.run and then run() return.
EtlLoadOk ==
    /\ pc = "load"
    /\ loads' = loads \cup {[run |-> runNo, batch |-> data, after |-> stagesOk]}
    /\ stagesOk' = stagesOk \cup {"load"}
    /\ pc' = StageAfter("load")
    /\ active' = active - 1
    /\ lastCompletion' = clock
    /\ UNCHANGED <<clock, cron_expression, hasDataLake, exc, cronCur, cronStart,
                   now, trigger, delta, wakeAt, data, lake, logged, runNo,
                   runStartClock, failed, archived, sleeps, interruptedAt,
                   geoVars, oldVars, etlVars, trVars, whVars, srcVars>>

\* self._etl_loader_factory.make() or a stage of etl_pipeline.run raised.
EtlFails ==
    /\ pc \in EtlPcs
    /\ RunRaises(pc)
    /\ UNCHANGED <<clock, cron_expression, hasDataLake, cronCur, cronStart, now,
                   trigger, delta, wakeAt, data, lake, loads, runNo,
                   runStartClock, stagesOk, archived, sleeps, interruptedAt,
                   geoVars, oldVars, etlVars, trVars, whVars, srcVars>>

Next ==
    \/ Tick
    \/ CroniterInit
    \/ ReadNow
    \/ GetNext
    \/ SleepCall
    \/ CallRun
    \/ Interrupt
    \/ \E src \in SourceNames : IngestOk(src)
    \/ IngestFails
    \/ ArchiveOk
    \/ ArchiveFails
    \/ EtlStageOk
    \/ EtlLoadOk
    \/ EtlFails

Spec == Init /\ [][Next]_vars

\* ------------------------------------------------------------ claims
RequiredBeforeLoad == {"ingest", "extract", "transform", "validate"}

\* C1: a run that raises is logged and swallowed by schedule(): the
\* exception of a failed run never leaves schedule(), the scheduler goes
\* back to waiting for the next trigger.
C1_FailedRunSwallowed ==
    failed # {} => (logged > 0 /\ ~(pc = "raised" /\ exc = "Exception"))

\* C2: after a run has completed, the sleep length computed for the next
\* trigger is never negative, and the run that follows is started for a
\* trigger strictly later than the completion of the previous run.
C2_TriggerAfterCompletion ==
    /\ (pc = "sleep" /\ lastCompletion >= 0) => delta >= 0
    /\ (pc \in RunPcs /\ lastCompletion >= 0) => trigger > lastCompletion

\* C3: at most one pipeline run is in progress at any moment.
C3_AtMostOneRun == active <= 1

\* A second run is in progress after the first one completed.
C3_Witness == runNo >= 2 /\ pc \in RunPcs /\ active = 1 /\ lastCompletion >= 0

\* C4: once the loop of schedule() was entered, schedule() ends only by an
\* external interrupt, and then by returning normally.
C4_EndsOnlyByInterrupt ==
    (pc \in DonePcs /\ exc # "CroniterBadCronError")
        => (pc = "returned" /\ exc = "none" /\ interruptedAt \in TryPcs)

\* C5: nothing runs before the first sleep; every run starts at or after the
\* trigger it was scheduled for, and no trigger precedes the first cron
\* trigger after the time schedule() built its iterator.
C5_RunNotBeforeTrigger ==
    /\ sleeps = 0 => (runNo = 0 /\ active = 0)
    /\ pc \in RunPcs =>
          /\ runStartClock >= trigger
          /\ clock >= trigger
          /\ trigger >= cronStart + 1
          /\ trigger >= CronGetNext(cronStart, cron_expression)

\* A second run was started, later than its trigger time.
C5_Witness == pc \in RunPcs /\ runNo >= 2 /\ runStartClock > trigger

\* C6: with an expression croniter cannot parse, schedule() raises before it
\* sleeps and before any run.
C6_InvalidCronRejectedAtStartup ==
    ~cron_expression.wellFormed =>
        /\ pc \in {"start", "raised"}
        /\ pc = "raised" => exc = "CroniterBadCronError"
        /\ sleeps = 0 /\ runNo = 0 /\ loads = {} /\ lake = {}

\* schedule() has raised for a malformed expression, some time after the call.
C6_Witness ==
    ~cron_expression.wellFormed /\ pc = "raised" /\ clock > 0

\* C7: the loader is invoked only after ingestion, extraction,
\* transformation and validation of the same run succeeded; a stage failure
\* ends the run, and a run with a failed stage loads nothing.
C7_LoadOnlyAfterAllStages ==
    /\ pc = "load" => RequiredBeforeLoad \subseteq stagesOk
    /\ \A l \in loads : RequiredBeforeLoad \subseteq l.after
    /\ \A f \in failed :
          /\ \A l \in loads : l.run # f.run
          /\ f.run = runNo => pc \notin RunPcs

\* One run loaded its batch and a later run failed in a stage before loading.
C7_Witness ==
    /\ loads # {}
    /\ \E f \in failed : f.stage \in RequiredBeforeLoad /\ f.run = runNo

\* C8: when storing the batch in the data lake fails, the failure is logged
\* and the ETL of the same run is still entered.
C8_ArchivalBestEffort ==
    \A f \in failed : f.stage = "archive" =>
        /\ logged > 0
        /\ \/ (runNo = f.run /\ pc \in EtlPcs)
           \/ (runNo = f.run /\ stagesOk \cap EtlPcs # {})
           \/ \E g \in failed : g.run = f.run /\ g.stage \in EtlPcs
           \/ interruptedAt \in EtlPcs

\* C9: batches that differ in obtained timestamp or source name get
\* different keys, and when the archived batches have pairwise distinct
\* timestamps every one of them is still in the data lake under its key.
C9_DistinctBatchesDistinctKeys ==
    /\ \A a, b \in archived :
          (a.ts # b.ts \/ a.src # b.src)
              => make_key_for_data(a) # make_key_for_data(b)
    /\ (\A a, b \in archived : a.run # b.run => a.ts # b.ts)
          => \A a \in archived :
                [key |-> make_key_for_data(a), run |-> a.run] \in lake

\* Two batches obtained within the same second, and two with different
\* source names, have been archived.
C9_Witness ==
    /\ \E a, b \in archived :
          a.ts # b.ts /\ a.ts \div TicksPerSecond = b.ts \div TicksPerSecond
    /\ \E a, b \in archived : a.src # b.src
    /\ Cardinality(lake) >= 2

\* ------------------------------------------------------------ Geolocator calls
\* geolocator(city_name): a cached name returns at once; otherwise retry's
\* loop starts with tries = 3.
GeoCall(g, city) ==
    /\ geoPc = "idle"
    /\ geoSelf' = g
    /\ geoCity' = city
    /\ geoKnown' = (\E h \in geoHist : h.self = g /\ h.city = city)
    /\ geoUnres' =
          \/ \E h \in geoHist : h.self = g /\ h.city = city /\ h.result = None
          \/ (geoSelf = g /\ geoCity = city /\ geoRet.kind = "raise")
    /\ netCalls' = 0
    /\ geoDelay' = 0
    /\ IF CacheHit(g, city)
         THEN /\ geoRet' = [kind |-> "return", value |-> CacheGet(g, city)]
              /\ UNCHANGED <<geoPc, geoTries>>
         ELSE /\ geoPc' = "geocode"
              /\ geoTries' = RetryTries
              /\ geoRet' = [kind |-> "none", value |-> None]
    /\ UNCHANGED <<cache, geoHist, geoSince, lastGap, schedVars, oldVars, etlVars, whVars, srcVars>>

\* geocode() answered: the throttle wrapper sleeps after the call, the
\* result passes through retry and is stored by functools.cache.
GeocodeReturns(location) ==
    /\ geoPc = "geocode"
    /\ netCalls' = netCalls + 1
    /\ geoDelay' = geoDelay + ThrottleDelay
    /\ LET result == UniversalCityNameLatLon(location)
           entry == [self |-> geoSelf, city |-> geoCity, result |-> result]
       IN /\ geoRet' = [kind |-> "return", value |-> result]
          /\ cache' = cache \cup {[entry EXCEPT !.self = CacheKeySelf(geoSelf)]}
          /\ geoHist' = IF geoKnown THEN geoHist ELSE geoHist \cup {entry}
    /\ geoPc' = "idle"
    /\ lastGap' = geoSince
    /\ geoSince' = ThrottleDelay
    /\ UNCHANGED <<geoSelf, geoCity, geoTries, geoKnown, geoUnres, schedVars, oldVars, etlVars, whVars, srcVars>>

\* geocode() raised TimeoutError: the throttle wrapper does not sleep, retry
\* counts the try down and either sleeps its delay and tries again or, with
\* no try left, re-raises; functools.cache stores nothing.
GeocodeTimesOut ==
    /\ geoPc = "geocode"
    /\ netCalls' = netCalls + 1
    /\ geoTries' = geoTries - 1
    /\ lastGap' = geoSince
    /\ IF RetryExhausted(geoTries')
         THEN /\ geoPc' = "idle"
              /\ geoRet' = [kind |-> "raise", value |-> None]
              /\ geoDelay' = geoDelay
              /\ geoSince' = 0
         ELSE /\ geoDelay' = geoDelay + RetryDelay
              /\ geoSince' = RetryDelay
              /\ UNCHANGED <<geoPc, geoRet>>
    /\ UNCHANGED <<geoSelf, geoCity, cache, geoHist, geoKnown, geoUnres,
                   schedVars, oldVars, etlVars, whVars, srcVars>>

InitGeo ==
    /\ Init
    /\ cron_expression = [wellFormed |-> TRUE, step |-> 1]
    /\ hasDataLake = FALSE

\* The Geolocator called on its own, by no transformation step.
GeolocatorCall(g, city) == GeoCall(g, city) /\ UNCHANGED trVars
GeolocatorGeocodeReturns(location) == GeocodeReturns(location) /\ UNCHANGED trVars
GeolocatorGeocodeTimesOut == GeocodeTimesOut /\ UNCHANGED trVars

NextGeo ==
    \/ \E g \in Geolocators, city \in CityNames : GeolocatorCall(g, city)
    \/ \E location \in GeocodeAnswers : GeolocatorGeocodeReturns(location)
    \/ GeolocatorGeocodeTimesOut

SpecGeo == InitGeo /\ [][NextGeo]_vars

\* C10: a __call__ for a city name that this Geolocator has resolved before
\* returns what the first resolve returned, makes no network call and
\* sleeps neither for the throttle nor for a retry.
C10_ResolvedNameIsMemoized ==
    geoKnown =>
        /\ geoPc = "idle"
        /\ geoRet.kind = "return"
        /\ \E h \in geoHist :
              h.self = geoSelf /\ h.city = geoCity /\ h.result = geoRet.value
        /\ netCalls = 0
        /\ geoDelay = 0

\* A name was resolved again after the other Geolocator resolved the same
\* name to something else.
C10_Witness ==
    /\ geoKnown /\ geoPc = "idle"
    /\ \E h \in geoHist :
          h.city = geoCity /\ h.self # geoSelf /\ h.result # geoRet.value

\* C11: a __call__ for a city name that an earlier resolve left unresolved
\* (no match, or every try timed out) returns None from the cache, with no
\* network call.
C11_UnresolvedStaysCached ==
    geoUnres =>
        /\ geoPc = "idle"
        /\ geoRet = [kind |-> "return", value |-> None]
        /\ netCalls = 0

\* C12: one __call__ makes at most 3 geocode() calls; every timed-out try
\* but the last is followed by the 10 s delay and a new try, and after the
\* third timed-out try the call has ended.
C12_AtMostThreeAttempts ==
    /\ netCalls <= RetryTries
    /\ geoPc = "geocode" =>
          /\ netCalls < RetryTries
          /\ geoTries = RetryTries - netCalls
          /\ geoDelay = netCalls * RetryDelay
    /\ geoRet.kind = "raise" =>
          /\ geoPc = "idle"
          /\ netCalls = RetryTries
          /\ geoDelay = (RetryTries - 1) * RetryDelay

\* The third try of a call is pending after two timed-out tries.
C12_Witness ==
    geoPc = "geocode" /\ netCalls = RetryTries - 1 /\ geoDelay = 2 * RetryDelay

\* C13: a __call__ whose tries all timed out returns None; the timeout error
\* does not leave __call__.
C13_ExhaustedReturnsNone ==
    geoRet.kind # "raise"

\* C14: between two successive geocode() calls the Geolocator has slept at
\* least the throttle delay.
C14_ThrottleBetweenCalls ==
    lastGap = -1 \/ lastGap >= ThrottleDelay

\* ------------------------------------------------------------ data_processing's Geolocator
\* A component of a Python tuple: a value or None.
NoneItem == [some |-> FALSE]
Item(x) == [some |-> TRUE, v |-> x]
Tuple3(a, b, c) == [kind |-> "tuple", items |-> <<a, b, c>>]

\* geocode() is called without a country filter here: it may also answer
\* with a location of another country.
OldGeocodeAnswers ==
    GeocodeAnswers \cup
        { [found |-> TRUE, address |-> <<"Berlin", "Deutschland">>,
           latitude |-> 52, longitude |-> 13] }

\* address_str_to_city_country_name: the first and the last part of the
\* comma separated address.
AddressToCityCountry(address) == <<address[1], address[Len(address)]>>

\* get_universal_city_name_lat_lon of data_processing/geolocator.py.
OldUniversalCityNameLatLon(location) ==
    IF ~location.found
      THEN Tuple3(NoneItem, NoneItem, NoneItem)
      ELSE IF AddressToCityCountry(location.address)[2] = "Polska"
        THEN Tuple3(Item(AddressToCityCountry(location.address)[1]),
                    Item(location.latitude), Item(location.longitude))
        ELSE Tuple3(NoneItem, NoneItem, NoneItem)

\* geolocator(city_name) with functools.cache around it; location is what
\* geocode() answers when it is asked.
OldGeoCall(g, city, location) ==
    /\ LET hit == \E e \in oldCache : e.self = g /\ e.city = city
           result ==
               IF hit
                 THEN (CHOOSE e \in oldCache : e.self = g /\ e.city = city).result
                 ELSE OldUniversalCityNameLatLon(location)
       IN /\ oldRet' = result
          /\ oldCache' = oldCache \cup {[self |-> g, city |-> city, result |-> result]}
    /\ UNCHANGED <<schedVars, geoVars, etlVars, trVars, whVars, srcVars>>

NextOldGeo ==
    \E g \in Geolocators, city \in CityNames, location \in OldGeocodeAnswers :
        OldGeoCall(g, city, location)

SpecOldGeo == InitGeo /\ [][NextOldGeo]_vars

\* C15: a resolve returns None or a triple whose three components are all
\* present, never a triple with missing components.
C15_TripleOrNone ==
    /\ geoRet.kind = "return" => geoRet.value.kind \in {"None", "tuple"}
    /\ oldRet.kind = "tuple" => \A i \in 1..3 : oldRet.items[i].some

\* ------------------------------------------------------------ ETL: transformation and validation
\* Largest number of postings in one batch.
MaxRows == 2

\* A cell of a relation: a value, or null (None/NaN, also what pandas puts
\* where a posting lacks the key).
Null == [null |-> TRUE]
Val(x) == [null |-> FALSE, v |-> x]

RawIds == {Null, Val("a"), Val("b")}
RawTitles == {Null, Val("t")}
\* Salary sub-structures. Amounts are even, so that the mean of two of them
\* is a whole number.
RawSalaries ==
    { [from |-> f, to |-> t, type |-> Val("B2B")] :
          f \in {Null, Val(-4), Val(0), Val(2)}, t \in {Null, Val(2)} }
      \cup { [from |-> Val(0), to |-> Val(2), type |-> Null] }
RawPostings == [id : RawIds, title : RawTitles, salary : RawSalaries]
Batches == UNION { [1..n -> RawPostings] : n \in 0..MaxRows }

\* The raw relation has a column when at least one posting carries the key.
HasColumn(batch, col) == \E i \in DOMAIN batch : ~batch[i][col].null

\* str.lower() on the contract type.
Lower(cell) == IF cell = Val("B2B") THEN Val("b2b") ELSE cell

\* Mean of a row's salary bounds, the absent ones skipped.
MeanIsLowerBound(lo, hi) == IF lo.null THEN hi ELSE lo
MeanOfBounds(lo, hi) ==
    IF lo.null THEN hi
    ELSE IF hi.null THEN lo
    ELSE Val((lo.v + hi.v) \div 2)

\* One row of the transformed relation.
TransformRow(p) ==
    [id |-> p.id, title |-> p.title,
     contract_type |-> Lower(p.salary.type),
     salary_min |-> p.salary.from, salary_max |-> p.salary.to,
     salary_mean |-> MeanOfBounds(p.salary.from, p.salary.to)]

SalaryCols == {"salary_min", "salary_max", "salary_mean"}

\* pa.Column(...) rules: nullable=False (the default), unique=True, Check.ge.
NonNullable(rel, col) == \A i \in DOMAIN rel : ~rel[i][col].null
NeverDuplicate(rel, col) == TRUE
Unique(rel, col) ==
    \A i, j \in DOMAIN rel : i # j => rel[i][col] # rel[j][col]
CheckNothing(rel, col, min) == TRUE
CheckGe(rel, col, min) ==
    \A i \in DOMAIN rel : rel[i][col].null \/ rel[i][col].v >= min

\* Schemas.postings: id is the only column that is neither nullable nor
\* coerced; name, title, technology, category, url are nullable=True.
PostingsSchemaOk(rel) == NonNullable(rel, "id") /\ Unique(rel, "id")

\* Schemas.salaries.
SalariesSchemaOk(rel) ==
    /\ NonNullable(rel, "id") /\ Unique(rel, "id")
    /\ NonNullable(rel, "contract_type")
    /\ \A col \in SalaryCols : NonNullable(rel, col) /\ CheckGe(rel, col, 0)

\* DataFrameSchema.validate: the relation itself, or SchemaError.
ValidateLenient(ok, rel) == [status |-> "ok", rows |-> rel]
Validate(ok, rel) ==
    IF ok THEN [status |-> "ok", rows |-> rel]
          ELSE [status |-> "SchemaError", rows |-> <<>>]

\* Extraction: the raw batch becomes the raw relation.
ExtractBatch(batch) ==
    /\ etlPc = "idle"
    /\ raw' = batch
    /\ etlPc' = "transform"
    /\ UNCHANGED <<relation, postingsView, salariesView, etlLoaded, etlExc,
                   schedVars, geoVars, oldVars, trVars, whVars, srcVars>>

\* Transformation: select_required raises when a required column is absent,
\* then the extract_* steps build the relation.
Transform ==
    /\ etlPc = "transform"
    /\ IF HasColumn(raw, "id") /\ HasColumn(raw, "title")
         THEN /\ relation' = [i \in DOMAIN raw |-> TransformRow(raw[i])]
              /\ etlPc' = "validate_postings"
              /\ UNCHANGED etlExc
         ELSE /\ etlPc' = "failed"
              /\ etlExc' = "SchemaError"
              /\ UNCHANGED relation
    /\ UNCHANGED <<raw, postingsView, salariesView, etlLoaded,
                   schedVars, geoVars, oldVars, trVars, whVars, srcVars>>

ValidatePostings ==
    /\ etlPc = "validate_postings"
    /\ postingsView' = Validate(PostingsSchemaOk(relation), relation)
    /\ IF postingsView'.status = "ok"
         THEN etlPc' = "validate_salaries" /\ UNCHANGED etlExc
         ELSE etlPc' = "failed" /\ etlExc' = "SchemaError"
    /\ UNCHANGED <<raw, relation, salariesView, etlLoaded,
                   schedVars, geoVars, oldVars, trVars, whVars, srcVars>>

ValidateSalaries ==
    /\ etlPc = "validate_salaries"
    /\ salariesView' = Validate(SalariesSchemaOk(relation), relation)
    /\ IF salariesView'.status = "ok"
         THEN etlPc' = "load" /\ UNCHANGED etlExc
         ELSE etlPc' = "failed" /\ etlExc' = "SchemaError"
    /\ UNCHANGED <<raw, relation, postingsView, etlLoaded,
                   schedVars, geoVars, oldVars, trVars, whVars, srcVars>>

\* Loading: the validated relation goes to the loader.
LoadValidated ==
    /\ etlPc = "load"
    /\ etlLoaded' = relation
    /\ etlPc' = "done"
    /\ UNCHANGED <<raw, relation, postingsView, salariesView, etlExc,
                   schedVars, geoVars, oldVars, trVars, whVars, srcVars>>

\* A run of the ETL starts on some batch.
ExtractSomeBatch == etlPc = "idle" /\ \E batch \in Batches : ExtractBatch(batch)

NextEtl ==
    \/ ExtractSomeBatch
    \/ Transform
    \/ ValidatePostings
    \/ ValidateSalaries
    \/ LoadValidated

SpecEtl == InitGeo /\ [][NextEtl]_vars

\* A row that breaks no rule of Schemas.salaries on its own.
SalariesRowClean(r) ==
    /\ ~r.id.null /\ ~r.contract_type.null
    /\ \A col \in SalaryCols : ~r[col].null /\ r[col].v >= 0

C17_NullTitleNeverPasses ==
    /\ postingsView.status = "ok" =>
           \A i \in DOMAIN postingsView.rows : ~postingsView.rows[i].title.null
    /\ \A i \in DOMAIN etlLoaded : ~etlLoaded[i].title.null

\* C18: negative salaries are rejected, not clamped. The relation carries
\* the raw bounds as they are, a relation with a negative salary value fails
\* the salaries validation, and a validated salaries view has salary_min,
\* salary_max and salary_mean present and >= 0 in every row.
C18_NegativeSalariesRejected ==
    /\ \A i \in DOMAIN relation :
           /\ relation[i].salary_min = raw[i].salary.from
           /\ relation[i].salary_max = raw[i].salary.to
    /\ salariesView.status = "ok" =>
           \A i \in DOMAIN salariesView.rows, col \in SalaryCols :
               /\ ~salariesView.rows[i][col].null
               /\ salariesView.rows[i][col].v >= 0
    /\ ( /\ salariesView.status # "none"
         /\ \E i \in DOMAIN relation, col \in SalaryCols :
                ~relation[i][col].null /\ relation[i][col].v < 0 )
           => salariesView.status = "SchemaError"

\* The salaries validation raised for a row whose only fault is a negative
\* salary_min.
C18_Witness ==
    /\ salariesView.status = "SchemaError"
    /\ Len(relation) = 1
    /\ ~relation[1].id.null /\ ~relation[1].contract_type.null
    /\ relation[1].salary_min = Val(-4)
    /\ relation[1].salary_max = Val(2)

\* C19: in a validated postings or salaries view id is never null and no
\* two rows share an id; a relation with a null or a duplicate id fails
\* the postings validation.
C19_UniqueNonNullId ==
    /\ \A view \in {postingsView, salariesView} :
           view.status = "ok" =>
               /\ \A i \in DOMAIN view.rows : ~view.rows[i].id.null
               /\ \A i, j \in DOMAIN view.rows :
                      i # j => view.rows[i].id # view.rows[j].id
    /\ ( /\ postingsView.status # "none"
         /\ \/ \E i \in DOMAIN relation : relation[i].id.null
            \/ \E i, j \in DOMAIN relation :
                   i # j /\ relation[i].id = relation[j].id )
           => postingsView.status = "SchemaError"

\* The postings validation raised for two rows with the same non-null id.
C19_Witness ==
    /\ postingsView.status = "SchemaError"
    /\ Len(relation) = 2
    /\ ~relation[1].id.null
    /\ relation[1].id = relation[2].id

\* The bounds a salary sub-structure carries.
PresentBounds(salary) == {b \in {salary.from, salary.to} : ~b.null}

C27_IngestArchiveThenEtl ==
    /\ pc \in EtlPcs =>
          /\ "ingest" \in stagesOk
          /\ data # NoData
          /\ hasDataLake =>
                /\ "archive" \in stagesOk
                /\ [key |-> make_key_for_data(data), run |-> runNo] \in lake
    /\ hasDataLake =>
          \A f \in failed : f.stage \in EtlPcs =>
              \E a \in archived :
                  /\ a.run = f.run
                  /\ [key |-> make_key_for_data(a), run |-> f.run] \in lake
    /\ ~hasDataLake =>
          /\ lake = {} /\ archived = {} /\ "archive" \notin stagesOk
          /\ \A f \in failed : f.stage # "archive"
    /\ \A l \in loads :
          /\ "ingest" \in l.after
          /\ l.batch # NoData
          /\ hasDataLake <=> "archive" \in l.after

\* With a data lake, the load of a run failed and its batch is archived.
C27_Witness ==
    /\ hasDataLake
    /\ \E f \in failed : f.stage = "load" /\ f.run = runNo
    /\ [key |-> make_key_for_data(data), run |-> runNo] \in lake

\* C28: a KeyboardInterrupt that arrives during a run is not logged as a
\* failure of the run, ends the run before its remaining stages, and makes
\* schedule() return normally; no run is in progress afterwards.
C28_InterruptEndsRunAndLoop ==
    interruptedAt \in RunPcs =>
        /\ pc = "returned" /\ exc = "none"
        /\ active = 0
        /\ logged = Cardinality(failed)
        /\ \A f \in failed : f.run # runNo
        /\ interruptedAt \notin stagesOk
        /\ "load" \notin stagesOk
        /\ \A l \in loads : l.run # runNo

\* The second run was interrupted in its ETL, after its ingestion.
C28_Witness ==
    /\ interruptedAt \in EtlPcs
    /\ runNo >= 2
    /\ "ingest" \in stagesOk
    /\ loads # {}

\* ------------------------------------------------------------ cache key
\* C29: a lookup on a Geolocator instance that has not resolved the name
\* itself ends only after a network call of its own, whatever the other
\* instances have cached, and what a lookup returns is what its own
\* instance resolved the name to.
C29_CacheKeyedByInstance ==
    /\ (geoRet.kind = "return" /\ ~geoKnown) => netCalls >= 1
    /\ geoRet.kind = "return" =>
          \E h \in geoHist :
              h.self = geoSelf /\ h.city = geoCity /\ h.result = geoRet.value

\* A lookup made its own network call for a name the other instance had
\* cached with another result.
C29_Witness ==
    /\ geoRet.kind = "return" /\ ~geoKnown /\ netCalls >= 1
    /\ \E e \in cache :
          e.self # geoSelf /\ e.city = geoCity /\ e.result # geoRet.value

\* ------------------------------------------------------------ transformation steps
\* Top-level columns a raw relation may have, the allow-list
\* select_required projects to, and the columns that are not on it.
ColumnNames == {"id", "location", "logo"}
COLS_TO_KEEP == <<"id", "location">>
COLS_TO_DROP == {"logo"}

Range(seq) == {seq[k] : k \in DOMAIN seq}

\* Column lists without a repeated name.
Headers ==
    { h \in UNION { [1..k -> ColumnNames] : k \in 0..Cardinality(ColumnNames) } :
          \A i, j \in DOMAIN h : i # j => h[i] # h[j] }

\* A relation as select_required sees it: its columns and its number of
\* rows.
SelectInputs == [cols : Headers, n : 0..MaxRows]

\* Keeping the columns by dropping the others: fails where a column to
\* drop is not there.
select_by_dropping(rel) ==
    IF COLS_TO_DROP \subseteq Range(rel.cols)
      THEN [status |-> "ok",
            rel |-> [cols |-> SelectSeq(rel.cols, LAMBDA c : c \notin COLS_TO_DROP),
                     n |-> rel.n]]
      ELSE [status |-> "KeyError"]

\* select_required: the projection to COLS_TO_KEEP, SchemaError when one
\* of them is absent.
select_required(rel) ==
    IF Range(COLS_TO_KEEP) \subseteq Range(rel.cols)
      THEN [status |-> "ok", rel |-> [cols |-> COLS_TO_KEEP, n |-> rel.n]]
      ELSE [status |-> "SchemaError"]

SelectRequired(rel) ==
    /\ trPc = "idle"
    /\ selIn' = rel
    /\ selOut' = select_required(rel)
    /\ trPc' = "selected"
    /\ UNCHANGED <<selAgain, trRaw, trRemote, trRow, trPlace, trResolved,
                   trCity, schedVars, geoVars, oldVars, etlVars, whVars, srcVars>>

\* select_required applied to what it returned.
SelectRequiredAgain ==
    /\ trPc = "selected"
    /\ selOut.status = "ok"
    /\ selAgain' = select_required(selOut.rel)
    /\ trPc' = "selected_again"
    /\ UNCHANGED <<selIn, selOut, trRaw, trRemote, trRow, trPlace,
                   trResolved, trCity, schedVars, geoVars, oldVars, etlVars, whVars, srcVars>>

\* Largest number of places in the location of one posting.
MaxPlaces == 2

\* The `location` sub-structure of a raw posting: its places (each stands
\* for its city name) and the fullyRemote flag, which may be absent.
PlaceLists == UNION { [1..k -> CityNames] : k \in 0..MaxPlaces }
RemoteFlags == {Null, Val(TRUE), Val(FALSE)}
RawLocations(places, flags) == [places : places, fullyRemote : flags]
BatchesOf(rows) == UNION { [1..n -> rows] : n \in 0..MaxRows }

\* Inputs of extract_remote: every flag, with no place and with one.
RemoteBatches ==
    BatchesOf(RawLocations({p \in PlaceLists : Len(p) <= 1 /\ Range(p) \subseteq {"Warsaw"}},
                           RemoteFlags))
\* Inputs of extract_locations: every list of places.
LocationBatches == BatchesOf(RawLocations(PlaceLists, {Val(TRUE)}))

\* extract_remote: the flag of the location, false where it is absent.
copy_remote_flag(location) == location.fullyRemote
extract_remote(location) ==
    IF location.fullyRemote.null THEN Val(FALSE)
                                 ELSE Val(location.fullyRemote.v)

ExtractRemote(batch) ==
    /\ trPc = "idle"
    /\ trRaw' = batch
    /\ trRemote' = [i \in DOMAIN batch |-> extract_remote(batch[i])]
    /\ trPc' = "remote_done"
    /\ UNCHANGED <<selIn, selOut, selAgain, trRow, trPlace, trResolved, trCity,
                   schedVars, geoVars, oldVars, etlVars, whVars, srcVars>>

\* The Geolocator instance the transformation engine holds.
EngineGeolocator == 1

\* The geolocation results of one posting without the failed ones.
DropNone(results) == SelectSeq(results, LAMBDA r : r # None)

\* extract_locations starts with the first place of the first posting.
LocationsStart(batch) ==
    /\ trPc = "idle"
    /\ trRaw' = batch
    /\ trRow' = 1 /\ trPlace' = 1
    /\ trResolved' = [i \in DOMAIN batch |-> <<>>]
    /\ trPc' = "locate"
    /\ UNCHANGED <<selIn, selOut, selAgain, trRemote, trCity,
                   schedVars, geoVars, oldVars, etlVars, whVars, srcVars>>

\* self._geolocator(city) for the place at hand.
LocationsCall ==
    /\ trPc = "locate"
    /\ trRow <= Len(trRaw)
    /\ trPlace <= Len(trRaw[trRow].places)
    /\ GeoCall(EngineGeolocator, trRaw[trRow].places[trPlace])
    /\ trPc' = "wait"
    /\ UNCHANGED <<selIn, selOut, selAgain, trRaw, trRemote, trRow, trPlace,
                   trResolved, trCity>>

\* The lookup is on its way inside the Geolocator.
LocationsGeocodeReturns(location) ==
    /\ trPc = "wait"
    /\ GeocodeReturns(location)
    /\ UNCHANGED trVars

LocationsGeocodeTimesOut ==
    /\ trPc = "wait"
    /\ GeocodeTimesOut
    /\ UNCHANGED trVars

\* The Geolocator returned: its result is kept for the place, and the next
\* place is at hand. Its TimeoutError ends extract_locations.
LocationsTake ==
    /\ trPc = "wait"
    /\ geoPc = "idle"
    /\ IF geoRet.kind = "raise"
         THEN /\ trPc' = "failed"
              /\ UNCHANGED <<trResolved, trPlace>>
         ELSE /\ trResolved' =
                    [trResolved EXCEPT ![trRow] = Append(@, geoRet.value)]
              /\ trPlace' = trPlace + 1
              /\ trPc' = "locate"
    /\ UNCHANGED <<selIn, selOut, selAgain, trRaw, trRemote, trRow, trCity,
                   schedVars, geoVars, oldVars, etlVars, whVars, srcVars>>

\* All places of the posting are done: on to the next posting.
LocationsNextRow ==
    /\ trPc = "locate"
    /\ trRow <= Len(trRaw)
    /\ trPlace > Len(trRaw[trRow].places)
    /\ trRow' = trRow + 1
    /\ trPlace' = 1
    /\ UNCHANGED <<selIn, selOut, selAgain, trRaw, trPc, trRemote, trResolved,
                   trCity, schedVars, geoVars, oldVars, etlVars, whVars, srcVars>>

\* All postings are done: the column `city` holds, per posting, the
\* results that are not None.
LocationsFinish ==
    /\ trPc = "locate"
    /\ trRow > Len(trRaw)
    /\ trCity' = [i \in DOMAIN trRaw |-> DropNone(trResolved[i])]
    /\ trPc' = "done"
    /\ UNCHANGED <<selIn, selOut, selAgain, trRaw, trRemote, trRow, trPlace,
                   trResolved, schedVars, geoVars, oldVars, etlVars, whVars, srcVars>>

\* A transformation step is applied to some input.
SelectRequiredOfSome ==
    trPc = "idle" /\ \E rel \in SelectInputs : SelectRequired(rel)
ExtractRemoteOfSome ==
    trPc = "idle" /\ \E batch \in RemoteBatches : ExtractRemote(batch)
ExtractLocationsOfSome ==
    trPc = "idle" /\ \E batch \in LocationBatches : LocationsStart(batch)

NextTransform ==
    \/ SelectRequiredOfSome
    \/ SelectRequiredAgain
    \/ ExtractRemoteOfSome
    \/ ExtractLocationsOfSome
    \/ LocationsCall
    \/ \E location \in GeocodeAnswers : LocationsGeocodeReturns(location)
    \/ LocationsGeocodeTimesOut
    \/ LocationsTake
    \/ LocationsNextRow
    \/ LocationsFinish

SpecTransform == InitGeo /\ [][NextTransform]_vars

\* C21: extract_remote gives every posting a remote value that is a
\* boolean, never null, and that is true exactly when the fullyRemote flag
\* of its location is present and true.
C21_RemoteIffFlagTrue ==
    /\ trPc = "remote_done" => Len(trRemote) = Len(trRaw)
    /\ \A i \in DOMAIN trRemote :
          /\ ~trRemote[i].null
          /\ trRemote[i].v \in BOOLEAN
          /\ trRemote[i].v <=>
                (~trRaw[i].fullyRemote.null /\ trRaw[i].fullyRemote.v)

\* One posting without the flag got remote = false next to one with the
\* flag set.
C21_Witness ==
    /\ trPc = "remote_done"
    /\ \E i, j \in DOMAIN trRemote :
          /\ trRaw[i].fullyRemote.null /\ trRemote[i] = Val(FALSE)
          /\ trRaw[j].fullyRemote = Val(TRUE) /\ trRemote[j] = Val(TRUE)

\* city is made of the entries of resolved that are not None, in their
\* order.
IsResolvedInOrder(city, resolved) ==
    /\ \A k \in DOMAIN city : city[k] # None
    /\ \E f \in [DOMAIN city -> DOMAIN resolved] :
          /\ \A k, l \in DOMAIN city : k < l => f[k] < f[l]
          /\ \A k \in DOMAIN city : city[k] = resolved[f[k]]
          /\ \A m \in DOMAIN resolved :
                (\A k \in DOMAIN city : f[k] # m) => resolved[m] = None

\* Where extract_locations has returned, every posting has a city list
\* that is no longer than its list of places and holds, in the order of
\* the places, what the Geolocator resolved them to, the places it
\* returned None for left out; extract_locations ends without a list only
\* by a TimeoutError of the Geolocator.
C22_YieldedListsAreResolvedPlaces ==
    /\ trPc = "done" =>
          /\ DOMAIN trCity = DOMAIN trRaw
          /\ \A i \in DOMAIN trRaw :
                /\ Len(trResolved[i]) = Len(trRaw[i].places)
                /\ Len(trCity[i]) <= Len(trRaw[i].places)
                /\ IsResolvedInOrder(trCity[i], trResolved[i])
    /\ trPc = "failed" => geoRet.kind = "raise"

\* C22: every posting gets its city list from extract_locations, of the
\* resolved places in their order; a place whose geolocation fails is left
\* out of the list and the posting is kept.
C22_FailedPlaceIsDropped ==
    /\ C22_YieldedListsAreResolvedPlaces
    /\ trPc # "failed"

\* A posting with two places of which the first was not resolved, and a
\* posting whose city list is empty.
C22_Witness ==
    /\ trPc = "done"
    /\ \E i, j \in DOMAIN trRaw :
          /\ Len(trRaw[i].places) = 2 /\ Len(trCity[i]) = 1
          /\ trResolved[i][1] = None
          /\ Len(trRaw[j].places) >= 1 /\ trCity[j] = <<>>

\* C23: what select_required returns has exactly the columns of
\* COLS_TO_KEEP, each once, and the rows of its input; applied to what it
\* returned it succeeds and returns the same relation.
C23_SelectRequiredIdempotent ==
    /\ selOut.status = "ok" =>
          /\ Range(selOut.rel.cols) = Range(COLS_TO_KEEP)
          /\ Len(selOut.rel.cols) = Cardinality(Range(COLS_TO_KEEP))
          /\ Range(selOut.rel.cols) \subseteq Range(selIn.cols)
          /\ selOut.rel.n = selIn.n
    /\ trPc = "selected_again" => selAgain = selOut

\* select_required was applied twice to a relation that had a column more.
C23_Witness ==
    /\ trPc = "selected_again"
    /\ selAgain.status = "ok"
    /\ Len(selIn.cols) > Len(selOut.rel.cols)
    /\ selIn.n = MaxRows

\* ------------------------------------------------------------ warehouse
\* Largest number of loader calls.
MaxLoads == 3

BatchIds == {"b1", "b2"}

\* Metadata handed to the loader; obtained_datetime stands for the number
\* of the loader call.
MetadataOf(b) ==
    [source_name |-> "nofluffjobs", obtained_datetime |-> whRuns, batch_id |-> b]

\* Rows of a validated relation: id, salary_mean and the city list.
CityLists ==
    { <<>>,
      <<UniversalCityNameLatLon(
          [found |-> TRUE, address |-> <<"Warszawa", "Polska">>,
           latitude |-> 52, longitude |-> 21])>> }
ValidatedRows == [id : {"a", "b"}, salary_mean : {0, 1}, city : CityLists]
\* Validated relations with a row to insert: no two rows share an id.
ValidatedRelations ==
    { rel \in UNION { [1..n -> ValidatedRows] : n \in 1..MaxRows } :
          \A i, j \in DOMAIN rel : i # j => rel[i].id # rel[j].id }

\* A (name, lat, lon) tuple is stored, and comes back, as an array.
ToBsonArray(triple) == <<triple.name, triple.lat, triple.lon>>

\* The posting document of a row: the row with the batch_id of its batch
\* and the _id the store gives it.
PostingDocument(row, b, oid) ==
    [_id |-> oid, id |-> row.id, salary_mean |-> row.salary_mean,
     city |-> [k \in DOMAIN row.city |-> ToBsonArray(row.city[k])],
     batch_id |-> b]

\* Loading is idempotent per batch identifier.
NeverLoaded(b) == FALSE
AlreadyLoaded(b) == \E k \in DOMAIN whMetadata : whMetadata[k].batch_id = b

\* load(validated_relation, metadata): the metadata document and the
\* posting documents of the batch are inserted together.
Load(b, rel) ==
    /\ whRuns < MaxLoads
    /\ whRuns' = whRuns + 1
    /\ IF AlreadyLoaded(b)
         THEN UNCHANGED <<whMetadata, whPostings, whLoaded>>
         ELSE /\ whMetadata' = Append(whMetadata, MetadataOf(b))
              /\ whPostings' = whPostings \o
                    [k \in DOMAIN rel |->
                        PostingDocument(rel[k], b, Len(whPostings) + k)]
              /\ whLoaded' = whLoaded \cup
                    {[batch_id |-> b, rel |-> rel, run |-> whRuns']}
    /\ UNCHANGED <<whFetch, schedVars, geoVars, oldVars, etlVars, trVars, srcVars>>

\* A run that failed before or in its load: nothing is inserted.
LoadFails ==
    /\ whRuns < MaxLoads
    /\ whRuns' = whRuns + 1
    /\ UNCHANGED <<whMetadata, whPostings, whLoaded, whFetch,
                   schedVars, geoVars, oldVars, etlVars, trVars, srcVars>>

\* collection.find({'batch_id': batch_id}), or find() when batch_id is
\* None.
find_all(arg) == whPostings
find(arg) ==
    IF arg.null THEN whPostings
    ELSE SelectSeq(whPostings, LAMBDA doc : doc.batch_id = arg.v)

\* fetch_data(batch_id): the documents found, ValueError when there is
\* none.
FetchData(arg) ==
    /\ whFetch' = IF Len(find(arg)) = 0
                    THEN [status |-> "ValueError", arg |-> arg, after |-> whRuns]
                    ELSE [status |-> "ok", arg |-> arg, after |-> whRuns,
                          rows |-> find(arg)]
    /\ whFetch' # whFetch
    /\ UNCHANGED <<whMetadata, whPostings, whLoaded, whRuns,
                   schedVars, geoVars, oldVars, etlVars, trVars, srcVars>>

\* $lookup from `metadata` by batch_id.
LookupMetadata(b) == SelectSeq(whMetadata, LAMBDA m : m.batch_id = b)

NextWarehouse ==
    \/ \E b \in BatchIds, rel \in ValidatedRelations : Load(b, rel)
    \/ LoadFails
    \/ \E arg \in {Null} \cup {Val(b) : b \in BatchIds} : FetchData(arg)

SpecWarehouse == InitGeo /\ [][NextWarehouse]_vars

\* C24: every posting document carries a batch_id that exactly one
\* metadata document has, and no two metadata documents share a batch_id.
C24_BatchIdResolvesToOneMetadata ==
    /\ \A k \in DOMAIN whPostings :
          Len(LookupMetadata(whPostings[k].batch_id)) = 1
    /\ \A i, j \in DOMAIN whMetadata :
          i # j => whMetadata[i].batch_id # whMetadata[j].batch_id

\* Two batches are in the warehouse after three loader calls, one of which
\* inserted nothing.
C24_Witness ==
    /\ whRuns = 3
    /\ Len(whMetadata) = 2
    /\ \E k, l \in DOMAIN whPostings : whPostings[k].batch_id # whPostings[l].batch_id

SOURCE_NAME == <<"n", "f", "j">>

\* What r.json() may give.
JsonPayloads == {"postings_1", "postings_2"}

\* datetime.datetime.now() as get() reads it: after the response arrived.
NowBeforeRequest(startedAt, clk) == startedAt
NowAfterResponse(startedAt, clk) == clk

\* r = requests.get(cls.POSTINGS_API_URL_SOURCE) is sent.
SourceRequest ==
    /\ srcPc = "idle"
    /\ srcStartedAt' = clock
    /\ srcPc' = "requested"
    /\ UNCHANGED <<srcReceivedAt, srcJson, srcReturnedAt, srcResult,
                   schedVars, geoVars, oldVars, etlVars, trVars, whVars>>

\* requests.get returned and json_data = r.json() was read.
SourceResponse(payload) ==
    /\ srcPc = "requested"
    /\ srcReceivedAt' = clock
    /\ srcJson' = payload
    /\ srcPc' = "received"
    /\ UNCHANGED <<srcStartedAt, srcReturnedAt, srcResult,
                   schedVars, geoVars, oldVars, etlVars, trVars, whVars>>

\* requests.get or r.json() raised: get() raises, nothing is returned.
SourceRaises ==
    /\ srcPc = "requested"
    /\ srcPc' = "idle"
    /\ srcResult' = [status |-> "raise"]
    /\ srcReturnedAt' = clock
    /\ UNCHANGED <<srcStartedAt, srcReceivedAt, srcJson,
                   schedVars, geoVars, oldVars, etlVars, trVars, whVars>>

\* datetime_now = datetime.datetime.now(); the PostingsData is built from
\* it, SOURCE_NAME and json_data, and returned.
SourceReturn ==
    /\ srcPc = "received"
    /\ srcResult' =
          [status |-> "return",
           metadata |-> [source_name |-> SOURCE_NAME,
                         obtained_datetime |->
                             NowAfterResponse(srcStartedAt, clock)],
           data |-> srcJson]
    /\ srcReturnedAt' = clock
    /\ srcPc' = "idle"
    /\ UNCHANGED <<srcStartedAt, srcReceivedAt, srcJson,
                   schedVars, geoVars, oldVars, etlVars, trVars, whVars>>

NextSource ==
    \/ Tick
    \/ SourceRequest
    \/ \E payload \in JsonPayloads : SourceResponse(payload)
    \/ SourceRaises
    \/ SourceReturn

SpecSource == InitGeo /\ [][NextSource]_vars

\* C26: what get() returns has SOURCE_NAME as source_name, the parsed
\* response as data and, as obtained_datetime, the clock as it was read in
\* this call after the response had arrived.
C26_MetadataOfThisFetch ==
    (srcPc = "idle" /\ srcResult.status = "return") =>
        /\ srcResult.metadata.source_name = <<"n", "f", "j">>
        /\ srcResult.metadata.source_name \in SourceNames
        /\ srcResult.data = srcJson
        /\ srcResult.metadata.obtained_datetime >= srcReceivedAt
        /\ srcResult.metadata.obtained_datetime = srcReturnedAt
        /\ srcReceivedAt >= srcStartedAt

\* A second fetch returned, its response having taken time to arrive and
\* to be read.
C26_Witness ==
    /\ srcResult.status = "return" /\ srcPc = "idle"
    /\ srcStartedAt > 0
    /\ srcReceivedAt > srcStartedAt
    /\ srcResult.metadata.obtained_datetime > srcReceivedAt

====
